---- MODULE Spec2Model ----
(***************************************************************************)
(* Synergy: the POST handler of src/api/route.ts, which runs a list of     *)
(* participants one after the other against their provider, relays every   *)
(* increment as an event and appends each finished reply to the            *)
(* conversation history.                                                   *)
(*                                                                         *)
(* Text is modelled as a sequence of tokens, so that string concatenation  *)
(* is \o and the empty string is << >>.  Spec is one request whose client  *)
(* stays connected for the whole run; SpecAbort adds the client's abort,   *)
(* after which enqueue on the cancelled stream throws; SpecTwo runs two     *)
(* requests with their steps interleaved.  A participant is its name and   *)
(* its provider; user turns carry no attached files.  The system prompt    *)
(* and the thinking options of a request are functions of the request,     *)
(* applied on their own in SpecPrompt and SpecThinking; SpecMessages is    *)
(* the building of the initial history from any list of inbound messages;  *)
(* SpecHook is the client hook of src/utils/index.ts, one call of          *)
(* sendMessage reading the stream of the handler; SpecValidate is          *)
(* validateParticipant applied to a participant.                           *)
(***************************************************************************)
EXTENDS Integers, Sequences, FiniteSets

VARIABLES
    bodyParses,          \* req.json() returns the body
    hasParticipants,     \* request body: a participants field is present
    hasMessages,         \* request body: a messages field is present
    participants,        \* request body: participants
    prefillContent,      \* request body: prefillContent (<< >> when absent)
    openaiKey,           \* request body: an openaiKey was supplied
    anthropicKey,        \* request body: an anthropicKey was supplied
    messages,            \* request body: messages
    pc,                  \* position of the handler
    status,              \* HTTP status of the response (0: none yet)
    i,                   \* loop index of start(), 1-based
    conversationHistory, \* the mutable history of the run
    events,              \* what flush has enqueued, in order
    closed,              \* controller.close() was called
    fullResponse,        \* the accumulator of the running adapter
    request,             \* the provider request of the running adapter
    openStreams,         \* positions whose provider call is in flight
    delivered,           \* provider stream events delivered so far in the run
    outcome,             \* per position: pending, open, done, raised, skipped
    received,            \* per position: the history its adapter was given
    streamed,            \* per position: the visible text its provider streamed
    abort,               \* the client's abort: whether, at which position, after how many events
    sessions,            \* SpecTwo: the state of each of two concurrent requests
    hook,                \* SpecHook: the state of useSynergy in the client
    probe                \* the arguments and the result of a function applied on its own

vars == <<bodyParses, hasParticipants, hasMessages, participants, prefillContent,
          openaiKey, anthropicKey, messages, pc,
          status, i, conversationHistory, events, closed, fullResponse,
          request, openStreams, delivered, outcome, received, streamed,
          abort, sessions, hook, probe>>

inputs == <<bodyParses, hasParticipants, hasMessages, participants, prefillContent,
            openaiKey, anthropicKey, messages>>

\* what the steps of a single connected request leave alone
aux == <<abort, sessions, hook, probe>>

(***************************************************************************)
(* Bounds of the model.                                                    *)
(***************************************************************************)
MaxParticipants == 2
MaxStreamEvents == 2

(***************************************************************************)
(* The inputs of a request.                                                *)
(***************************************************************************)
Names == {"A", "B"}
Providers == {"openai", "anthropic", "other"}
SynergyParticipant == [name : Names, provider : Providers]

ParticipantLists ==
    UNION {[1..n -> SynergyParticipant] : n \in 0..MaxParticipants}

Prefills == {<< >>, <<"P">>}

UserMsg == [type |-> "user", content |-> <<"hi">>, participant_name |-> "", model |-> ""]
AssistantMsg ==
    [type |-> "assistant", content |-> <<"yo">>, participant_name |-> "B", model |-> "m1"]
SystemMsg == [type |-> "system", content |-> <<"sys">>, participant_name |-> "", model |-> ""]
MessageLists == {<<UserMsg>>, <<SystemMsg, UserMsg, AssistantMsg>>}

NoRequest == [provider |-> "none", messages |-> << >>]

NoAbort == [cancelled |-> FALSE, position |-> 0, emitted |-> 0]

\* no client is modelled: the request comes from anywhere
NoHook == [pc |-> "none"]

\* no function is applied on its own
NoProbe == [fn |-> "none"]

\* the inbound connection was aborted and the response stream cancelled
cancelled == abort.cancelled

(***************************************************************************)
(* Pure helpers.                                                           *)
(***************************************************************************)
\* mutant: an assistant turn without a participant_name is attributed to "Assistant"
RECURSIVE ProcessMessages_NoModel(_)
ProcessMessages_NoModel(msgs) ==
    IF msgs = << >> THEN << >>
    ELSE LET msg == Head(msgs)
             rest == ProcessMessages_NoModel(Tail(msgs))
         IN IF msg.type = "user"
            THEN <<[role |-> "user", content |-> msg.content, attribution |-> ""]>> \o rest
            ELSE IF msg.type = "assistant"
            THEN <<[role |-> "assistant", content |-> msg.content,
                    attribution |-> IF msg.participant_name # "" THEN msg.participant_name
                                    ELSE "Assistant"]>> \o rest
            ELSE rest

\* processedMessages: the user and assistant messages, assistant turns attributed
RECURSIVE ProcessMessages(_)
ProcessMessages(msgs) ==
    IF msgs = << >> THEN << >>
    ELSE LET msg == Head(msgs)
             rest == ProcessMessages(Tail(msgs))
         IN IF msg.type = "user"
            THEN <<[role |-> "user", content |-> msg.content, attribution |-> ""]>> \o rest
            ELSE IF msg.type = "assistant"
            THEN <<[role |-> "assistant", content |-> msg.content,
                    attribution |-> IF msg.participant_name # "" THEN msg.participant_name
                                    ELSE IF msg.model # "" THEN msg.model
                                    ELSE "Assistant"]>> \o rest
            ELSE rest

needsOpenAI == \E k \in DOMAIN participants : participants[k].provider = "openai"
needsAnthropic == \E k \in DOMAIN participants : participants[k].provider = "anthropic"

\* mutant: the attribution is dropped from what is sent
Attributed_Bare(msg) == msg.content

\* `[${msg.attribution}]: ${msg.content}` when the turn has an attribution
Attributed(msg) ==
    IF msg.attribution # "" THEN <<"[", msg.attribution, "]: ">> \o msg.content
    ELSE msg.content

\* mutant: the prefill is not limited to the last participant
isLastParticipant_Always(k) == TRUE

\* i === participants.length - 1
isLastParticipant(k) == k = Len(participants)

PrefillApplies(k) == prefillContent # << >> /\ isLastParticipant(k)

\* anthropicMessages: every turn mapped, then the synthetic prefill turn
AnthropicMessages(history, k) ==
    [n \in 1..Len(history) |->
        [role |-> history[n].role, content |-> Attributed(history[n])]]
    \o (IF PrefillApplies(k)
        THEN <<[role |-> "assistant", content |-> prefillContent]>> ELSE << >>)

\* input: user turns as input_text, assistant turns with their attribution
OpenAIInput(history, k) ==
    [n \in 1..Len(history) |->
        IF history[n].role = "user"
        THEN [role |-> "user", content |-> history[n].content]
        ELSE [role |-> "assistant", content |-> Attributed(history[n])]]

\* let fullResponse = prefillContent || ""
AnthropicInitialResponse(k) == prefillContent

\* let fullResponse = ""
OpenAIInitialResponse(k) == << >>

Chunk(p, content) ==
    [type |-> "chunk", participant |-> p.name, provider |-> p.provider,
     content |-> content]

ErrorEvent(p) ==
    [type |-> "error", participant |-> p.name, message |-> <<"error", p.name>>]

CompleteEvent == [type |-> "complete"]

\* flush: controller.enqueue of the serialised event
Flush(evs, obj) == Append(evs, obj)

\* mutant: the history is rebuilt from the request's messages at each reply
PushReply_Rebuild(history, p, content) ==
    Append(ProcessMessages(messages), [role |-> "assistant", content |-> content,
                                       attribution |-> p.name])

\* conversationHistory.push({role: "assistant", content, attribution})
PushReply(history, p, content) ==
    Append(history, [role |-> "assistant", content |-> content,
                     attribution |-> p.name])

(***************************************************************************)
(* Initial state: a request has arrived.                                   *)
(***************************************************************************)
\* the state of the handler before its first step
Fresh ==
    /\ pc = "start"
    /\ status = 0
    /\ i = 0
    /\ conversationHistory = << >>
    /\ events = << >>
    /\ closed = FALSE
    /\ fullResponse = << >>
    /\ request = NoRequest
    /\ openStreams = {}
    /\ delivered = 0
    /\ outcome = [k \in DOMAIN participants |-> "pending"]
    /\ received = [k \in DOMAIN participants |-> << >>]
    /\ streamed = [k \in DOMAIN participants |-> << >>]
    /\ abort = NoAbort

Init ==
    /\ bodyParses \in BOOLEAN
    /\ hasParticipants \in (IF bodyParses THEN BOOLEAN ELSE {FALSE})
    /\ hasMessages \in (IF bodyParses THEN BOOLEAN ELSE {FALSE})
    /\ participants \in (IF hasParticipants THEN ParticipantLists ELSE {<< >>})
    /\ prefillContent \in (IF bodyParses THEN Prefills ELSE {<< >>})
    /\ openaiKey \in (IF bodyParses THEN BOOLEAN ELSE {FALSE})
    /\ anthropicKey \in (IF bodyParses THEN BOOLEAN ELSE {FALSE})
    /\ messages \in (IF hasMessages THEN MessageLists ELSE {<< >>})
    /\ Fresh
    /\ sessions = << >>
    /\ hook = NoHook
    /\ probe = NoProbe

(***************************************************************************)
(* POST, up to the creation of the stream.                                 *)
(***************************************************************************)
\* !participants || participants.length < 1
NoParticipants == ~hasParticipants \/ Len(participants) < 1

\* a provider is in use and its key was not supplied
KeyMissing ==
    \/ needsOpenAI /\ ~openaiKey
    \/ needsAnthropic /\ ~anthropicKey

Reject ==
    /\ pc = "start"
    /\ bodyParses
    /\ NoParticipants \/ KeyMissing
    /\ status' = 400
    /\ pc' = "rejected"
    /\ UNCHANGED <<inputs, aux, i, conversationHistory, events, closed, fullResponse,
                   request, openStreams, delivered, outcome, received, streamed>>

\* mutant: only the OpenAI key is checked
Accept_OpenAIKeyOnly ==
    /\ pc = "start"
    /\ bodyParses
    /\ ~NoParticipants
    /\ ~(needsOpenAI /\ ~openaiKey)
    /\ hasMessages
    /\ status' = 200
    /\ conversationHistory' = ProcessMessages(messages)
    /\ i' = 1
    /\ pc' = "loop"
    /\ UNCHANGED <<inputs, aux, events, closed, fullResponse, request, openStreams,
                   delivered, outcome, received, streamed>>

\* mutant: the participants list is not checked
Accept_AnyList ==
    /\ pc = "start"
    /\ bodyParses
    /\ ~KeyMissing
    /\ hasMessages
    /\ status' = 200
    /\ conversationHistory' = ProcessMessages(messages)
    /\ i' = 1
    /\ pc' = "loop"
    /\ UNCHANGED <<inputs, aux, events, closed, fullResponse, request, openStreams,
                   delivered, outcome, received, streamed>>

\* mutant: a request without messages is served with an empty history
Accept_NoMessages ==
    /\ pc = "start"
    /\ bodyParses
    /\ ~NoParticipants
    /\ ~KeyMissing
    /\ status' = 200
    /\ conversationHistory' = ProcessMessages(messages)
    /\ i' = 1
    /\ pc' = "loop"
    /\ UNCHANGED <<inputs, aux, events, closed, fullResponse, request, openStreams,
                   delivered, outcome, received, streamed>>

\* the outer catch of POST: req.json() or messages.filter threw
HandlerCatch ==
    /\ pc = "start"
    /\ ~bodyParses \/ (~NoParticipants /\ ~KeyMissing /\ ~hasMessages)
    /\ status' = 500
    /\ pc' = "failed"
    /\ UNCHANGED <<inputs, aux, i, conversationHistory, events, closed, fullResponse,
                   request, openStreams, delivered, outcome, received, streamed>>

Accept ==
    /\ pc = "start"
    /\ bodyParses
    /\ ~NoParticipants
    /\ ~KeyMissing
    /\ hasMessages
    /\ status' = 200
    /\ conversationHistory' = ProcessMessages(messages)
    /\ i' = 1
    /\ pc' = "loop"
    /\ UNCHANGED <<inputs, aux, events, closed, fullResponse, request, openStreams,
                   delivered, outcome, received, streamed>>

(***************************************************************************)
(* start(controller): the loop over the participants.                      *)
(***************************************************************************)
\* handleAnthropicParticipant up to the await of the provider call
AnthropicCall ==
    /\ pc = "loop"
    /\ i <= Len(participants)
    /\ participants[i].provider = "anthropic" /\ needsAnthropic
    /\ request' = [provider |-> "anthropic",
                   messages |-> AnthropicMessages(conversationHistory, i)]
    /\ received' = [received EXCEPT ![i] = conversationHistory]
    /\ outcome' = [outcome EXCEPT ![i] = "open"]
    /\ openStreams' = openStreams \cup {i}
    /\ pc' = "awaiting"
    /\ UNCHANGED <<inputs, aux, status, i, conversationHistory, events, closed,
                   fullResponse, delivered, streamed>>

\* mutant: the adapter is started but not awaited
OpenAICall_NoAwait ==
    /\ pc = "loop"
    /\ i <= Len(participants)
    /\ participants[i].provider = "openai" /\ needsOpenAI
    /\ request' = [provider |-> "openai",
                   messages |-> OpenAIInput(conversationHistory, i)]
    /\ received' = [received EXCEPT ![i] = conversationHistory]
    /\ outcome' = [outcome EXCEPT ![i] = "open"]
    /\ openStreams' = openStreams \cup {i}
    /\ i' = i + 1
    /\ UNCHANGED <<inputs, aux, pc, status, conversationHistory, events, closed,
                   fullResponse, delivered, streamed>>

\* handleOpenAIParticipant up to the await of the provider call
OpenAICall ==
    /\ pc = "loop"
    /\ i <= Len(participants)
    /\ participants[i].provider = "openai" /\ needsOpenAI
    /\ request' = [provider |-> "openai",
                   messages |-> OpenAIInput(conversationHistory, i)]
    /\ received' = [received EXCEPT ![i] = conversationHistory]
    /\ outcome' = [outcome EXCEPT ![i] = "open"]
    /\ openStreams' = openStreams \cup {i}
    /\ pc' = "awaiting"
    /\ UNCHANGED <<inputs, aux, status, i, conversationHistory, events, closed,
                   fullResponse, delivered, streamed>>

\* neither branch of the dispatch matches: the iteration does nothing
NoHandler ==
    /\ pc = "loop"
    /\ i <= Len(participants)
    /\ ~(participants[i].provider = "anthropic" /\ needsAnthropic)
    /\ ~(participants[i].provider = "openai" /\ needsOpenAI)
    /\ outcome' = [outcome EXCEPT ![i] = "skipped"]
    /\ i' = i + 1
    /\ UNCHANGED <<inputs, aux, pc, status, conversationHistory, events, closed,
                   fullResponse, request, openStreams, delivered, received, streamed>>

\* the Anthropic stream is open: the prefill is echoed, the accumulator set
AnthropicOpened ==
    /\ pc = "awaiting"
    /\ request.provider = "anthropic"
    /\ PrefillApplies(i) => ~cancelled
    /\ events' = IF PrefillApplies(i)
                 THEN Flush(events, Chunk(participants[i], prefillContent))
                 ELSE events
    /\ fullResponse' = AnthropicInitialResponse(i)
    /\ pc' = "streaming"
    /\ UNCHANGED <<inputs, aux, status, i, conversationHistory, closed, request,
                   openStreams, delivered, outcome, received, streamed>>

\* the OpenAI stream is open
OpenAIOpened ==
    /\ pc = "awaiting"
    /\ request.provider = "openai"
    /\ fullResponse' = OpenAIInitialResponse(i)
    /\ pc' = "streaming"
    /\ UNCHANGED <<inputs, aux, status, i, conversationHistory, events, closed, request,
                   openStreams, delivered, outcome, received, streamed>>

\* content_block_delta carrying text
AnthropicTextDelta ==
    /\ pc = "streaming"
    /\ ~cancelled
    /\ request.provider = "anthropic"
    /\ delivered < MaxStreamEvents
    /\ \E content \in {<<"x">>} :
        /\ fullResponse' = fullResponse \o content
        /\ events' = Flush(events, Chunk(participants[i], content))
        /\ streamed' = [streamed EXCEPT ![i] = @ \o content]
    /\ delivered' = delivered + 1
    /\ UNCHANGED <<inputs, aux, pc, status, i, conversationHistory, closed, request,
                   openStreams, outcome, received>>

\* mutant: the thinking channel is suppressed
AnthropicThinkingDelta_Suppressed ==
    /\ pc = "streaming"
    /\ ~cancelled
    /\ request.provider = "anthropic"
    /\ delivered < MaxStreamEvents
    /\ delivered' = delivered + 1
    /\ UNCHANGED <<inputs, aux, pc, status, i, conversationHistory, events, closed,
                   fullResponse, request, openStreams, outcome, received, streamed>>

\* content_block_delta of type thinking_delta
AnthropicThinkingDelta ==
    /\ pc = "streaming"
    /\ ~cancelled
    /\ request.provider = "anthropic"
    /\ delivered < MaxStreamEvents
    /\ \E thinkingText \in {<<"t">>} :
        events' = Flush(events, Chunk(participants[i],
                            <<"[THINKING]">> \o thinkingText \o <<"[/THINKING]">>))
    /\ delivered' = delivered + 1
    /\ UNCHANGED <<inputs, aux, pc, status, i, conversationHistory, closed, fullResponse,
                   request, openStreams, outcome, received, streamed>>

\* response.output_text.delta
OpenAITextDelta ==
    /\ pc = "streaming"
    /\ ~cancelled
    /\ request.provider = "openai"
    /\ delivered < MaxStreamEvents
    /\ \E content \in {<<"x">>} :
        /\ fullResponse' = fullResponse \o content
        /\ events' = Flush(events, Chunk(participants[i], content))
        /\ streamed' = [streamed EXCEPT ![i] = @ \o content]
    /\ delivered' = delivered + 1
    /\ UNCHANGED <<inputs, aux, pc, status, i, conversationHistory, closed, request,
                   openStreams, outcome, received>>

\* any other event of the OpenAI stream is ignored
OpenAIOtherEvent ==
    /\ pc = "streaming"
    /\ request.provider = "openai"
    /\ delivered < MaxStreamEvents
    /\ delivered' = delivered + 1
    /\ UNCHANGED <<inputs, aux, pc, status, i, conversationHistory, events, closed,
                   fullResponse, request, openStreams, outcome, received, streamed>>

\* the Anthropic stream ended: the adapter pushes its reply and returns
AnthropicStreamEnd ==
    /\ pc = "streaming"
    /\ request.provider = "anthropic"
    /\ conversationHistory' = PushReply(conversationHistory, participants[i], fullResponse)
    /\ outcome' = [outcome EXCEPT ![i] = "done"]
    /\ openStreams' = openStreams \ {i}
    /\ i' = i + 1
    /\ pc' = "loop"
    /\ UNCHANGED <<inputs, aux, status, events, closed, fullResponse, request, delivered,
                   received, streamed>>

\* the OpenAI stream ended: the adapter pushes its reply and returns
OpenAIStreamEnd ==
    /\ pc = "streaming"
    /\ request.provider = "openai"
    /\ conversationHistory' = PushReply(conversationHistory, participants[i], fullResponse)
    /\ outcome' = [outcome EXCEPT ![i] = "done"]
    /\ openStreams' = openStreams \ {i}
    /\ i' = i + 1
    /\ pc' = "loop"
    /\ UNCHANGED <<inputs, aux, status, events, closed, fullResponse, request, delivered,
                   received, streamed>>

\* mutant: the catch ends the run as the outer catch does
ParticipantCatch_Abort ==
    /\ pc \in {"awaiting", "streaming"}
    /\ ~cancelled
    /\ events' = Flush(events, ErrorEvent(participants[i]))
    /\ outcome' = [outcome EXCEPT ![i] = "raised"]
    /\ openStreams' = openStreams \ {i}
    /\ closed' = TRUE
    /\ pc' = "done"
    /\ UNCHANGED <<inputs, aux, status, i, conversationHistory, fullResponse, request,
                   delivered, received, streamed>>

\* mutant: the catch records an empty reply for the failed participant
ParticipantCatch_PushEmpty ==
    /\ pc \in {"awaiting", "streaming"}
    /\ ~cancelled
    /\ events' = Flush(events, ErrorEvent(participants[i]))
    /\ conversationHistory' = PushReply(conversationHistory, participants[i], << >>)
    /\ outcome' = [outcome EXCEPT ![i] = "raised"]
    /\ openStreams' = openStreams \ {i}
    /\ i' = i + 1
    /\ pc' = "loop"
    /\ UNCHANGED <<inputs, aux, status, closed, fullResponse, request, delivered,
                   received, streamed>>

\* mutant: the catch keeps what the adapter had accumulated
ParticipantCatch_PushPartial ==
    /\ pc \in {"awaiting", "streaming"}
    /\ ~cancelled
    /\ events' = Flush(events, ErrorEvent(participants[i]))
    /\ conversationHistory' =
          IF pc = "streaming"
          THEN PushReply(conversationHistory, participants[i], fullResponse)
          ELSE conversationHistory
    /\ outcome' = [outcome EXCEPT ![i] = "raised"]
    /\ openStreams' = openStreams \ {i}
    /\ i' = i + 1
    /\ pc' = "loop"
    /\ UNCHANGED <<inputs, aux, status, closed, fullResponse, request, delivered,
                   received, streamed>>

\* mutant: the catch closes the stream and the loop goes on
ParticipantCatch_Close ==
    /\ pc \in {"awaiting", "streaming"}
    /\ ~cancelled
    /\ events' = Flush(events, ErrorEvent(participants[i]))
    /\ closed' = TRUE
    /\ outcome' = [outcome EXCEPT ![i] = "raised"]
    /\ openStreams' = openStreams \ {i}
    /\ i' = i + 1
    /\ pc' = "loop"
    /\ UNCHANGED <<inputs, aux, status, conversationHistory, fullResponse, request,
                   delivered, received, streamed>>

\* mutant: the error event names the first participant of the list
ParticipantCatch_FirstName ==
    /\ pc \in {"awaiting", "streaming"}
    /\ ~cancelled
    /\ events' = Flush(events, ErrorEvent(participants[1]))
    /\ outcome' = [outcome EXCEPT ![i] = "raised"]
    /\ openStreams' = openStreams \ {i}
    /\ i' = i + 1
    /\ pc' = "loop"
    /\ UNCHANGED <<inputs, aux, status, conversationHistory, closed, fullResponse, request,
                   delivered, received, streamed>>

\* the provider call or its stream raised: the catch of the iteration
ParticipantCatch ==
    /\ pc \in {"awaiting", "streaming"}
    /\ ~cancelled
    /\ events' = Flush(events, ErrorEvent(participants[i]))
    /\ outcome' = [outcome EXCEPT ![i] = "raised"]
    /\ openStreams' = openStreams \ {i}
    /\ i' = i + 1
    /\ pc' = "loop"
    /\ UNCHANGED <<inputs, aux, status, conversationHistory, closed, fullResponse, request,
                   delivered, received, streamed>>

\* mutant: the loop bound is off by one (i < participants.length - 1)
Complete_Early ==
    /\ pc = "loop"
    /\ i >= Len(participants)
    /\ ~cancelled
    /\ events' = Flush(events, CompleteEvent)
    /\ closed' = TRUE
    /\ pc' = "done"
    /\ UNCHANGED <<inputs, aux, status, i, conversationHistory, fullResponse, request,
                   openStreams, delivered, outcome, received, streamed>>

\* after the loop: flush({type: "complete"}) and controller.close()
Complete ==
    /\ pc = "loop"
    /\ i > Len(participants)
    /\ ~cancelled
    /\ events' = Flush(events, CompleteEvent)
    /\ closed' = TRUE
    /\ pc' = "done"
    /\ UNCHANGED <<inputs, aux, status, i, conversationHistory, fullResponse, request,
                   openStreams, delivered, outcome, received, streamed>>

(***************************************************************************)
(* The client's abort.  The handler never reads the request's signal; the  *)
(* cancelled response stream makes every later enqueue throw.              *)
(***************************************************************************)
\* abort() of the client, while the handler waits on a provider
ClientAbort ==
    /\ pc \in {"awaiting", "streaming"}
    /\ ~cancelled
    /\ abort' = [cancelled |-> TRUE, position |-> i, emitted |-> Len(events)]
    /\ UNCHANGED <<inputs, sessions, hook, probe, pc, status, i, conversationHistory,
                   events, closed, fullResponse, request, openStreams, delivered, outcome,
                   received, streamed>>

\* the adapter's flush threw, or the provider raised: the flush of the inner
\* catch throws, then the flush of the outer catch, and start() rejects
CatchThrows ==
    /\ pc \in {"awaiting", "streaming"}
    /\ cancelled
    /\ outcome' = [outcome EXCEPT ![i] = "raised"]
    /\ openStreams' = openStreams \ {i}
    /\ pc' = "crashed"
    /\ UNCHANGED <<inputs, aux, status, i, conversationHistory, events, closed,
                   fullResponse, request, delivered, received, streamed>>

\* flush({type: "complete"}) threw: the flush of the outer catch throws too
CompleteThrows ==
    /\ pc = "loop"
    /\ i > Len(participants)
    /\ cancelled
    /\ pc' = "crashed"
    /\ UNCHANGED <<inputs, aux, status, i, conversationHistory, events, closed,
                   fullResponse, request, openStreams, delivered, outcome, received,
                   streamed>>

Next ==
    \/ Reject
    \/ Accept
    \/ HandlerCatch
    \/ AnthropicCall
    \/ OpenAICall
    \/ NoHandler
    \/ AnthropicOpened
    \/ OpenAIOpened
    \/ AnthropicTextDelta
    \/ AnthropicThinkingDelta
    \/ OpenAITextDelta
    \/ OpenAIOtherEvent
    \/ AnthropicStreamEnd
    \/ OpenAIStreamEnd
    \/ ParticipantCatch
    \/ Complete

Spec == Init /\ [][Next]_vars

NextAbort ==
    \/ Next
    \/ ClientAbort
    \/ CatchThrows
    \/ CompleteThrows

SpecAbort == Init /\ [][NextAbort]_vars

(***************************************************************************)
(* Two requests with their steps interleaved (SpecTwo).  Each call of POST *)
(* has its own processedMessages, conversationHistory and controller; the  *)
(* module holds no mutable binding.  A session is the state of one call    *)
(* from the start of its loop; the provider of a request streams text that *)
(* is recognisable as that request's.                                      *)
(***************************************************************************)
Requests == {1, 2}

SessionNames(r) == IF r = 1 THEN <<"A", "B", "C">> ELSE <<"D", "E", "F">>
SessionText(r) == IF r = 1 THEN "x1" ELSE "x2"
SessionMessages(r) ==
    <<[type |-> "user", content |-> <<IF r = 1 THEN "hi1" ELSE "hi2">>,
       participant_name |-> "", model |-> ""]>>

SessionParticipants(r, n) ==
    [k \in 1..n |-> [name |-> SessionNames(r)[k],
                     provider |-> IF k = 1 THEN "openai" ELSE "anthropic"]]

NewSession(r, n) ==
    [participants |-> SessionParticipants(r, n),
     pc |-> "loop",
     i |-> 1,
     conversationHistory |-> ProcessMessages(SessionMessages(r)),
     events |-> << >>,
     fullResponse |-> << >>,
     delivered |-> 0]

\* the state of one call of POST
server == <<inputs, abort, pc, status, i, conversationHistory, events, closed,
            fullResponse, request, openStreams, delivered, outcome, received,
            streamed>>

single == <<server, hook, probe>>

InitTwo ==
    /\ bodyParses = FALSE
    /\ hasParticipants = FALSE
    /\ hasMessages = FALSE
    /\ participants = << >>
    /\ prefillContent = << >>
    /\ openaiKey = FALSE
    /\ anthropicKey = FALSE
    /\ messages = << >>
    /\ Fresh
    /\ hook = NoHook
    /\ probe = NoProbe
    /\ \E n1, n2 \in 1..MaxParticipants :
          sessions = [r \in Requests |-> NewSession(r, IF r = 1 THEN n1 ELSE n2)]

\* the adapter of the session's current participant is called and its stream opens
SessionCall(r) ==
    LET s == sessions[r] IN
    /\ s.pc = "loop"
    /\ s.i <= Len(s.participants)
    /\ sessions' = [sessions EXCEPT ![r] =
                        [s EXCEPT !.pc = "streaming", !.fullResponse = << >>]]
    /\ UNCHANGED single

\* a text delta of the session's provider stream
SessionDelta(r) ==
    LET s == sessions[r] IN
    /\ s.pc = "streaming"
    /\ s.delivered < MaxStreamEvents
    /\ sessions' = [sessions EXCEPT ![r] =
          [s EXCEPT !.fullResponse = @ \o <<SessionText(r)>>,
                    !.events = Flush(@, Chunk(s.participants[s.i], <<SessionText(r)>>)),
                    !.delivered = @ + 1]]
    /\ UNCHANGED single

\* mutant: the history is one array of the module, shared by every request
SessionEnd_Shared(r) ==
    LET s == sessions[r] IN
    /\ s.pc = "streaming"
    /\ sessions' = [q \in Requests |->
          [(IF q = r THEN [s EXCEPT !.i = @ + 1, !.pc = "loop"] ELSE sessions[q])
           EXCEPT !.conversationHistory =
                      PushReply(@, s.participants[s.i], s.fullResponse)]]
    /\ UNCHANGED single

\* the session's stream ended: the adapter pushes onto the session's history
SessionEnd(r) ==
    LET s == sessions[r] IN
    /\ s.pc = "streaming"
    /\ sessions' = [sessions EXCEPT ![r] =
          [s EXCEPT !.conversationHistory =
                        PushReply(@, s.participants[s.i], s.fullResponse),
                    !.i = @ + 1,
                    !.pc = "loop"]]
    /\ UNCHANGED single

\* the session's adapter raised: the catch of the iteration
SessionCatch(r) ==
    LET s == sessions[r] IN
    /\ s.pc = "streaming"
    /\ sessions' = [sessions EXCEPT ![r] =
          [s EXCEPT !.events = Flush(@, ErrorEvent(s.participants[s.i])),
                    !.i = @ + 1,
                    !.pc = "loop"]]
    /\ UNCHANGED single

\* the session's loop is over: complete
SessionComplete(r) ==
    LET s == sessions[r] IN
    /\ s.pc = "loop"
    /\ s.i > Len(s.participants)
    /\ sessions' = [sessions EXCEPT ![r] =
          [s EXCEPT !.events = Flush(@, CompleteEvent), !.pc = "done"]]
    /\ UNCHANGED single

NextTwo ==
    \E r \in Requests :
        \/ SessionCall(r)
        \/ SessionDelta(r)
        \/ SessionEnd(r)
        \/ SessionCatch(r)
        \/ SessionComplete(r)

SpecTwo == InitTwo /\ [][NextTwo]_vars

(***************************************************************************)
(* Vocabulary of the properties.                                           *)
(***************************************************************************)
Positions == DOMAIN participants
Attempted(k) == outcome[k] \in {"done", "raised", "skipped"}
Invoked(k) == outcome[k] \in {"open", "done", "raised"}
EventsOfType(t) == {n \in DOMAIN events : events[n].type = t}
ErrorsNaming(name) ==
    {n \in EventsOfType("error") : events[n].participant = name}
RaisedNamed(name) ==
    {k \in Positions : outcome[k] = "raised" /\ participants[k].name = name}
Running == status = 200 /\ pc # "done"

\* C1: in an accepted run the complete event is emitted at most once, it is
\* the last event and is emitted only when every participant has been
\* attempted; a run that has not emitted it can always take a further step,
\* and a finished run has emitted it exactly once.
C1_CompleteOnce ==
    /\ Cardinality(EventsOfType("complete")) <= 1
    /\ \A n \in EventsOfType("complete") :
          /\ n = Len(events)
          /\ \A k \in Positions : Attempted(k)
    /\ pc = "done" => Cardinality(EventsOfType("complete")) = 1
    /\ Running => EventsOfType("complete") = {} /\ ENABLED Next

C1_Witness ==
    /\ pc = "done"
    /\ Len(participants) = 2
    /\ outcome[1] = "raised"
    /\ outcome[2] = "done"
    /\ events[Len(events)] = CompleteEvent

\* C2: every participant whose adapter raised has exactly one error event
\* carrying its name (per name, as many error events as raised participants),
\* the loop has moved on to the next position and the run goes on until every
\* participant has been attempted.
C2_ErrorPerRaise ==
    /\ \A name \in Names :
          Cardinality(ErrorsNaming(name)) = Cardinality(RaisedNamed(name))
    /\ \A k \in Positions : outcome[k] = "raised" =>
          /\ i > k
          /\ pc \in {"loop", "awaiting", "streaming", "done"}
          /\ pc # "done" => ~closed /\ ENABLED Next
          /\ pc = "done" => \A j \in Positions : Attempted(j)

C2_Witness ==
    /\ pc = "done"
    /\ Len(participants) = 2
    /\ outcome[1] = "raised"
    /\ streamed[1] # << >>
    /\ outcome[2] = "done"
    /\ Cardinality(EventsOfType("error")) = 1

\* what the adapter at position k pushes when its stream carries no text
EmptyReplyOf(k) ==
    IF participants[k].provider = "anthropic"
    THEN AnthropicInitialResponse(k) ELSE OpenAIInitialResponse(k)

\* C3 as stated: after participant K raised, K+1 is given the history of a run
\* in which K succeeded with empty text, that is the history K was given
\* followed by K's turn with no streamed text.
C3_AsIfEmptySuccess ==
    \A k \in Positions :
        (outcome[k] = "raised" /\ k + 1 \in Positions /\ Invoked(k + 1)) =>
            received[k + 1] = PushReply(received[k], participants[k], EmptyReplyOf(k))

\* C3 amended: after participant K raised, K+1 is given exactly the history K
\* was given: nothing of K is appended, not even an empty turn.
C3_NothingAppended ==
    \A k \in Positions :
        (outcome[k] = "raised" /\ k + 1 \in Positions /\ Invoked(k + 1)) =>
            received[k + 1] = received[k]

C3_Witness ==
    /\ Len(participants) = 2
    /\ outcome[1] = "raised"
    /\ outcome[2] = "done"

\* C4: when participant K raised after streaming text, the history on return
\* to the loop is the history K was given, and at any time the history holds
\* the initial turns and one turn per completed participant, none for K.
C4_NoPartialTurn ==
    /\ \A k \in Positions :
          (outcome[k] = "raised" /\ streamed[k] # << >> /\ pc = "loop" /\ i = k + 1) =>
              conversationHistory = received[k]
    /\ status = 200 =>
          Len(conversationHistory) =
              Len(ProcessMessages(messages))
              + Cardinality({k \in Positions : outcome[k] = "done"})

C4_Witness ==
    /\ pc = "loop"
    /\ i = 2
    /\ outcome[1] = "raised"
    /\ streamed[1] = <<"x", "x">>

InitialHistory == ProcessMessages(messages)

\* the text participant k produced: the prefill its adapter echoed, then the
\* visible text of its provider stream
CompletedReply(k) ==
    (IF participants[k].provider = "anthropic" /\ PrefillApplies(k)
     THEN prefillContent ELSE << >>) \o streamed[k]

ReplyTurn(k) ==
    [role |-> "assistant", content |-> CompletedReply(k),
     attribution |-> participants[k].name]

\* the turns of the completed participants among positions 1..m, in list order
RECURSIVE RepliesUpTo(_)
RepliesUpTo(m) ==
    IF m = 0 THEN << >>
    ELSE RepliesUpTo(m - 1) \o (IF outcome[m] = "done" THEN <<ReplyTurn(m)>> ELSE << >>)

RECURSIVE IsSubsequence(_, _)
IsSubsequence(a, b) ==
    IF a = << >> THEN TRUE
    ELSE IF b = << >> THEN FALSE
    ELSE IF Head(a) = Head(b) THEN IsSubsequence(Tail(a), Tail(b))
    ELSE IsSubsequence(a, Tail(b))

SupportedProviders ==
    \A k \in Positions : participants[k].provider \in {"openai", "anthropic"}

\* C5: when the run is finished and every participant completed (each using a
\* provider the handler dispatches), the history is the initial history
\* followed by one turn per participant, in list order, attributed to its
\* name and holding its completed reply.
C5_FinalHistory ==
    (pc = "done" /\ SupportedProviders /\ \A k \in Positions : outcome[k] = "done") =>
        conversationHistory =
            InitialHistory \o [k \in 1..Len(participants) |-> ReplyTurn(k)]

\* C6: the history given to the adapter at position n contains, in list order,
\* the turn (name and completed reply) of every participant before n that
\* completed.
C6_EarlierReplies ==
    \A n \in Positions :
        Invoked(n) => IsSubsequence(RepliesUpTo(n - 1), received[n])

\* C7: every step that emits appends exactly one event; a chunk or error event
\* carries the name of the participant at the current loop index, the index
\* never decreases, nothing is emitted after the complete event, and the
\* complete event is emitted only once the index has passed the last position.
C7_Step ==
    /\ i' >= i
    /\ events' # events =>
          /\ Len(events') = Len(events) + 1
          /\ SubSeq(events', 1, Len(events)) = events
          /\ EventsOfType("complete") = {}
          /\ LET e == events'[Len(events')]
             IN IF e.type = "complete"
                THEN i > Len(participants) /\ i' = i
                ELSE /\ i \in Positions
                     /\ e.participant = participants[i].name
                     /\ outcome[i] = "open"

C7_NoInterleaving == [][C7_Step]_vars

C7_Witness ==
    /\ pc = "done"
    /\ Len(participants) = 2
    /\ participants[1].name = "A"
    /\ participants[2].name = "B"
    /\ Len(events) = 4
    /\ events[1].type = "chunk" /\ events[1].participant = "A"
    /\ events[2].type = "error" /\ events[2].participant = "A"
    /\ events[3].type = "chunk" /\ events[3].participant = "B"
    /\ events[4].type = "complete"

\* C8: at most one provider call is in flight; it belongs to the current loop
\* index, and every earlier position has completed, raised or been passed over
\* before it was issued.
C8_OneStream ==
    /\ Cardinality(openStreams) <= 1
    /\ \A k \in Positions : outcome[k] = "open" <=> k \in openStreams
    /\ \A k \in openStreams :
          /\ k = i
          /\ pc \in {"awaiting", "streaming"}
          /\ \A j \in 1..(k - 1) : Attempted(j)
    /\ pc \in {"awaiting", "streaming"} => openStreams = {i}

C8_Witness ==
    /\ pc = "streaming"
    /\ openStreams = {2}
    /\ outcome[1] = "done"
    /\ streamed[1] # << >>

\* C9: when a prefill is supplied and the provider stream of the last
\* participant opens, its request ends with the prefill as an added assistant
\* turn and the prefill is emitted as a chunk at that step, before any delta.
C9_Step ==
    (pc = "awaiting" /\ pc' = "streaming" /\ prefillContent # << >>
     /\ i = Len(participants)) =>
        /\ Len(request.messages) = Len(conversationHistory) + 1
        /\ request.messages[Len(request.messages)] =
              [role |-> "assistant", content |-> prefillContent]
        /\ events' = Append(events, Chunk(participants[i], prefillContent))

C9_PrefillLast == [][C9_Step]_vars

\* C10: when a prefill is supplied and the list has two or more participants,
\* the request built for a participant other than the last has no added turn
\* (as many messages as the history has turns), and nothing is emitted when
\* its stream opens.
C10_Step ==
    (prefillContent # << >> /\ Len(participants) >= 2 /\ i' \in Positions
     /\ i' < Len(participants)) =>
        /\ pc' \in {"awaiting", "streaming"} =>
              Len(request'.messages) = Len(conversationHistory')
        /\ (pc = "awaiting" /\ pc' = "streaming") => events' = events

C10_PrefillOnlyLast == [][C10_Step]_vars

C10_Witness ==
    /\ pc = "streaming"
    /\ Len(participants) = 2
    /\ prefillContent # << >>
    /\ participants[1].provider = "anthropic"
    /\ participants[2].provider = "anthropic"
    /\ outcome[1] = "done"
    /\ streamed[1] # << >>
    /\ events[Len(events)] = Chunk(participants[2], prefillContent)

(***************************************************************************)
(* Validation and failures of the request.                                 *)
(***************************************************************************)
\* no event, no provider call, no history: the handler returned at once
NothingStarted ==
    /\ events = << >>
    /\ ~closed
    /\ openStreams = {}
    /\ request = NoRequest
    /\ conversationHistory = << >>
    /\ \A k \in Positions : outcome[k] = "pending"

\* some participant of the list uses a provider whose key was not supplied
ProviderWithoutKey ==
    /\ bodyParses
    /\ \E k \in Positions :
          \/ participants[k].provider = "openai" /\ ~openaiKey
          \/ participants[k].provider = "anthropic" /\ ~anthropicKey

\* C11: when a participant uses a provider whose key is missing, the handler
\* can only answer 400, and it has then streamed no event and called no
\* provider for any participant.
C11_MissingKeyRejected ==
    ProviderWithoutKey =>
        /\ pc \in {"start", "rejected"}
        /\ pc = "start" => status = 0 /\ ENABLED Next
        /\ pc = "rejected" => status = 400
        /\ NothingStarted

C11_Witness ==
    /\ pc = "rejected"
    /\ status = 400
    /\ Len(participants) = 2
    /\ participants[1].provider = "openai" /\ openaiKey
    /\ participants[2].provider = "anthropic" /\ ~anthropicKey

\* C12: when the participants list is missing or empty, the handler can only
\* answer 400, and it has then streamed no event and called no provider.
C12_NoParticipantsRejected ==
    (bodyParses /\ (~hasParticipants \/ participants = << >>)) =>
        /\ pc \in {"start", "rejected"}
        /\ pc = "start" => status = 0 /\ ENABLED Next
        /\ pc = "rejected" => status = 400
        /\ NothingStarted

C12_Witness ==
    /\ pc = "rejected"
    /\ status = 400
    /\ ~hasParticipants
    /\ hasMessages /\ openaiKey /\ anthropicKey

\* the body cannot be read, or it passes validation and has no messages
RequestThrows ==
    \/ ~bodyParses
    \/ /\ hasParticipants /\ participants # << >>
       /\ ~ProviderWithoutKey
       /\ ~hasMessages

\* C13: an error status (400, 500) is the answer of a handler that started
\* nothing; a request whose reading or preprocessing throws ends with 500; once
\* anything of the run has happened the status is 200, and a participant that
\* raised is reported by an error event of the stream.
C13_StatusBeforeStream ==
    /\ status \in {0, 200, 400, 500}
    /\ status \in {400, 500} => NothingStarted /\ pc \in {"rejected", "failed"}
    /\ RequestThrows => pc \in {"start", "failed"} /\ NothingStarted
    /\ (RequestThrows /\ pc = "failed") => status = 500
    /\ pc = "failed" => RequestThrows
    /\ pc \in {"loop", "awaiting", "streaming", "done"} => status = 200
    /\ \A k \in Positions : outcome[k] = "raised" =>
          /\ status = 200
          /\ ErrorsNaming(participants[k].name) # {}

C13_Witness ==
    /\ pc = "failed"
    /\ status = 500
    /\ bodyParses
    /\ ~hasMessages
    /\ Len(participants) = 2

(***************************************************************************)
(* The client's abort and the end of the stream (SpecAbort).               *)
(***************************************************************************)
\* C14: after the client's abort, with the participant at position i in flight,
\* no adapter is invoked for a later position and no event is added to the
\* stream.
C14_AbortStops ==
    cancelled =>
        /\ \A k \in Positions : k > abort.position => ~Invoked(k)
        /\ Len(events) = abort.emitted

\* C15: when an exception has escaped the handling of a participant, the last
\* event of the stream is an error event without a participant name and the
\* stream has been closed by the handler.
C15_OuterCatchReports ==
    pc = "crashed" =>
        /\ closed
        /\ events # << >>
        /\ events[Len(events)].type = "error"
        /\ "participant" \notin DOMAIN events[Len(events)]

IsTerminalEvent(e) ==
    \/ e.type = "complete"
    \/ e.type = "error" /\ "participant" \notin DOMAIN e

\* C16: a step that emits the error event of a participant leaves the stream
\* open; the step that closes the stream emits a terminal event as its last
\* event; once the stream is closed, by the handler or by the client's abort,
\* it stays closed and no event is added.
C16_Step ==
    /\ (closed \/ cancelled) => events' = events
    /\ closed => closed'
    /\ cancelled => cancelled'
    /\ (~closed /\ closed') =>
          /\ events' # events
          /\ IsTerminalEvent(events'[Len(events')])
    /\ (events' # events /\ ~IsTerminalEvent(events'[Len(events')])) => ~closed'

C16_CloseAfterTerminal == [][C16_Step]_vars

C16_Witness ==
    /\ pc = "done"
    /\ closed
    /\ Len(events) = 3
    /\ events[1].type = "error"
    /\ events[2].type = "chunk"
    /\ events[3].type = "complete"

(***************************************************************************)
(* The accumulated reply, the history and the provider request.            *)
(***************************************************************************)
DistinctNames ==
    \A a, b \in Positions : a # b => participants[a].name # participants[b].name

IsThinkingChunk(e) == e.content # << >> /\ e.content[1] = "[THINKING]"

\* the visible text emitted as chunk events under a name, in emission order
RECURSIVE VisibleEmitted(_, _)
VisibleEmitted(name, n) ==
    IF n = 0 THEN << >>
    ELSE VisibleEmitted(name, n - 1)
         \o (IF /\ events[n].type = "chunk"
                /\ events[n].participant = name
                /\ ~IsThinkingChunk(events[n])
             THEN events[n].content ELSE << >>)

\* where the turn of a completed participant is in the history
TurnIndex(k) ==
    Len(InitialHistory) + Cardinality({j \in 1..k : outcome[j] = "done"})

\* C18: the turn appended for a completed participant holds the concatenation,
\* in emission order, of the visible-text chunks emitted for it (stated for
\* lists whose names are pairwise distinct, where a chunk names its position).
C18_TurnIsEmittedText ==
    \A k \in Positions :
        (outcome[k] = "done" /\ DistinctNames) =>
            conversationHistory[TurnIndex(k)].content =
                VisibleEmitted(participants[k].name, Len(events))

\* C19: once the history of a run exists, a step leaves it unchanged or adds
\* exactly one turn at its end, and the step that adds is the completion of
\* the running adapter, whose turn carries that participant's name.
C19_Step ==
    pc # "start" =>
        \/ conversationHistory' = conversationHistory
        \/ /\ Len(conversationHistory') = Len(conversationHistory) + 1
           /\ SubSeq(conversationHistory', 1, Len(conversationHistory)) = conversationHistory
           /\ pc = "streaming"
           /\ outcome[i] = "open" /\ outcome'[i] = "done"
           /\ conversationHistory'[Len(conversationHistory')].role = "assistant"
           /\ conversationHistory'[Len(conversationHistory')].attribution =
                 participants[i].name

C19_AppendOnly == [][C19_Step]_vars

C19_Witness ==
    /\ pc = "done"
    /\ Len(conversationHistory) = Len(InitialHistory) + 2
    /\ streamed[1] # << >>

Prefixed(turn) == <<"[", turn.attribution, "]: ">> \o turn.content

OwnNames(r) ==
    {sessions[r].participants[k].name : k \in DOMAIN sessions[r].participants}

OwnText(r, content) == \A n \in DOMAIN content : content[n] = SessionText(r)

\* C17: the history of each request is its own initial messages followed by
\* turns attributed to its own participants and holding text of its own
\* provider streams, at most one per participant attempted; every chunk and
\* error event of its stream names one of its own participants, and every
\* chunk holds text of its own provider streams.
C17_RequestsIsolated ==
    \A r \in Requests :
        LET s == sessions[r]
            own == ProcessMessages(SessionMessages(r))
        IN /\ Len(s.conversationHistory) >= Len(own)
           /\ SubSeq(s.conversationHistory, 1, Len(own)) = own
           /\ Len(s.conversationHistory) - Len(own) <= s.i - 1
           /\ \A n \in (Len(own) + 1)..Len(s.conversationHistory) :
                 /\ s.conversationHistory[n].attribution \in OwnNames(r)
                 /\ OwnText(r, s.conversationHistory[n].content)
           /\ \A n \in DOMAIN s.events :
                 s.events[n].type # "complete" =>
                     /\ s.events[n].participant \in OwnNames(r)
                     /\ s.events[n].type = "chunk" => OwnText(r, s.events[n].content)

C17_Witness ==
    /\ sessions[1].pc = "streaming"
    /\ sessions[2].pc = "streaming"
    /\ sessions[1].i = 2
    /\ sessions[2].i = 2
    /\ Len(sessions[1].conversationHistory) = 2
    /\ sessions[1].conversationHistory[2].content # << >>
    /\ Len(sessions[2].events) = 2
    /\ sessions[2].events[1].type = "error"
    /\ sessions[2].events[2].type = "chunk"

(***************************************************************************)
(* The system prompt of a participant (SpecPrompt).  Here a participant is *)
(* its name, its model and its own instructions; the fixed text of the     *)
(* template is left out and the prompt is the record of what is embedded.  *)
(* The loop of start() builds one prompt per position, in list order.      *)
(***************************************************************************)
MaxPromptParticipants == 3

Models == {"m1", "m2"}
PromptParticipant == [name : Names, model : Models, systemPrompt : {<< >>, <<"s">>}]
PromptLists == UNION {[1..n -> PromptParticipant] : n \in 1..MaxPromptParticipants}

\* POST has not been called
NoCall ==
    /\ bodyParses = FALSE
    /\ hasParticipants = FALSE
    /\ hasMessages = FALSE
    /\ participants = << >>
    /\ prefillContent = << >>
    /\ openaiKey = FALSE
    /\ anthropicKey = FALSE
    /\ messages = << >>
    /\ Fresh

\* `${p.name} (${p.model})`
ParticipantLabel(p) == <<p.name, " (", p.model, ")">>

\* otherParticipants.map(label).join(", ")
RECURSIVE JoinLabels(_)
JoinLabels(ps) ==
    IF ps = << >> THEN << >>
    ELSE IF Len(ps) = 1 THEN ParticipantLabel(ps[1])
    ELSE ParticipantLabel(Head(ps)) \o <<", ">> \o JoinLabels(Tail(ps))

generateSystemPrompt(participant, others, baseSystemPrompt) ==
    LET otherNames == JoinLabels(others)
    IN [youAre |-> <<participant.name, participant.model>>,
        youAreNot |-> otherNames,
        conversationWith |-> otherNames,
        additional |-> participant.systemPrompt,
        base |-> baseSystemPrompt]

RECURSIVE FilterIndex(_, _, _)
FilterIndex(list, idx, k) ==
    IF idx > Len(list) THEN << >>
    ELSE (IF idx # k THEN <<list[idx]>> ELSE << >>) \o FilterIndex(list, idx + 1, k)

\* mutant: the peers are the participants with another name
otherParticipants_ByName(list, k) == SelectSeq(list, LAMBDA p : p.name # list[k].name)

\* participants.filter((_, idx) => idx !== i)
otherParticipants(list, k) == FilterIndex(list, 1, k)

InitPrompt ==
    /\ NoCall
    /\ sessions = << >>
    /\ hook = NoHook
    /\ \E list \in PromptLists, base \in {<< >>, <<"b">>} :
          probe = [fn |-> "generateSystemPrompt", participants |-> list,
                   systemPrompt |-> base, prompts |-> << >>]

\* one iteration of the loop, up to the prompt of the participant at index i
BuildPrompt ==
    /\ probe.fn = "generateSystemPrompt"
    /\ Len(probe.prompts) < Len(probe.participants)
    /\ LET k == Len(probe.prompts) + 1
       IN probe' = [probe EXCEPT !.prompts =
              Append(@, generateSystemPrompt(probe.participants[k],
                                             otherParticipants(probe.participants, k),
                                             probe.systemPrompt))]
    /\ UNCHANGED <<server, sessions, hook>>

NextPrompt == BuildPrompt

SpecPrompt == InitPrompt /\ [][NextPrompt]_vars

\* the (name, model) pairs a comma-joined list of labels names, in order
RECURSIVE PeersNamed(_)
PeersNamed(tokens) ==
    IF Len(tokens) < 4 THEN << >>
    ELSE <<[name |-> tokens[1], model |-> tokens[3]]>>
         \o PeersNamed(SubSeq(tokens, 6, Len(tokens)))

NameAndModel(list) == [n \in 1..Len(list) |-> [name |-> list[n].name, model |-> list[n].model]]

\* the list without its entry at position k
WithoutPosition(list, k) == SubSeq(list, 1, k - 1) \o SubSeq(list, k + 1, Len(list))

\* C21: the peers named in the prompt built for position k, in both places
\* where the prompt lists them, are the participants list with the entry at k
\* removed, in list order (N-1 entries), whatever names and models are shared.
C21_PeersAreTheOthers ==
    probe.fn = "generateSystemPrompt" =>
        \A k \in 1..Len(probe.prompts) :
            LET expected == NameAndModel(WithoutPosition(probe.participants, k))
            IN /\ PeersNamed(probe.prompts[k].youAreNot) = expected
               /\ PeersNamed(probe.prompts[k].conversationWith) = expected
               /\ Len(expected) = Len(probe.participants) - 1
               /\ probe.prompts[k].youAre =
                     <<probe.participants[k].name, probe.participants[k].model>>

C21_Witness ==
    /\ probe.fn = "generateSystemPrompt"
    /\ Len(probe.participants) = 3
    /\ Len(probe.prompts) = 3
    /\ probe.participants[1].name = probe.participants[2].name
    /\ probe.participants[2].model = probe.participants[3].model
    /\ probe.participants[1].model # probe.participants[2].model
    /\ probe.participants[2].name # probe.participants[3].name

(***************************************************************************)
(* The thinking channel of the Anthropic adapter.                          *)
(***************************************************************************)
\* the provider stream of the running Anthropic adapter delivers an event
AnthropicDelivery ==
    /\ pc = "streaming"
    /\ request.provider = "anthropic"
    /\ delivered' = delivered + 1

Wrapped(thinkingText) == <<"[THINKING]">> \o thinkingText \o <<"[/THINKING]">>

\* C22: every delivery of the Anthropic stream appends exactly one chunk event
\* at the end of the stream, naming the running participant: a thinking delta
\* (a delivery that adds nothing to the reply) appends its text wrapped in
\* [THINKING]...[/THINKING], a text delta appends the text it added to the
\* reply; so the chunks are in the order of the deltas and none is dropped.
C22_Step ==
    AnthropicDelivery =>
        /\ Len(events') = Len(events) + 1
        /\ SubSeq(events', 1, Len(events)) = events
        /\ LET e == events'[Len(events')]
           IN /\ e.type = "chunk"
              /\ e.participant = participants[i].name
              /\ IF fullResponse' = fullResponse
                 THEN /\ Len(e.content) >= 2
                      /\ e.content = Wrapped(SubSeq(e.content, 2, Len(e.content) - 1))
                      /\ streamed' = streamed
                 ELSE /\ ~IsThinkingChunk(e)
                      /\ fullResponse' = fullResponse \o e.content

C22_ThinkingRelayed == [][C22_Step]_vars

C22_Witness ==
    /\ pc = "streaming"
    /\ request.provider = "anthropic"
    /\ prefillContent = << >>
    /\ Len(events) = 2
    /\ IsThinkingChunk(events[1])
    /\ events[2] = Chunk(participants[i], <<"x">>)
    /\ fullResponse = <<"x">>

(***************************************************************************)
(* The thinking options of the Anthropic request (SpecThinking).  An       *)
(* optional value is << >> when undefined and <<v>> when set; the          *)
(* participant's anthropic bag is optional too.  The temperature of the    *)
(* request is left out.                                                    *)
(***************************************************************************)
FallbackBudget == 2000
FallbackCeiling == 32000
Reserve == 100
FallbackMaxTokens == 64000

OptionalBooleans == {<< >>, <<TRUE>>, <<FALSE>>}
AnthropicBags ==
    {<< >>} \cup
    {<<[extendedThinking |-> e, budgetTokens |-> b]>> :
        e \in OptionalBooleans, b \in {<< >>, <<0>>, <<500>>, <<5000>>}}
ThinkingParticipants ==
    [maxTokens : {<< >>, <<0>>, <<50>>, <<1000>>, <<4000>>}, anthropic : AnthropicBags]
RequestBudgets == {<< >>, <<0>>, <<1000>>, <<50000>>}

\* a ?? b
Coalesce(a, b) == IF a # << >> THEN a ELSE b

\* a || b, for an optional number a: 0 is falsy
OrNumber(a, b) == IF a # << >> /\ a[1] # 0 THEN a[1] ELSE b

MathMin(a, b) == IF a <= b THEN a ELSE b

\* participant.anthropic?.extendedThinking
OwnExtendedThinking(participant) ==
    IF participant.anthropic = << >> THEN << >>
    ELSE participant.anthropic[1].extendedThinking

\* participant.anthropic?.budgetTokens
OwnBudgetTokens(participant) ==
    IF participant.anthropic = << >> THEN << >>
    ELSE participant.anthropic[1].budgetTokens

\* mutant: either level enables thinking
useThinking_Either(participant, extendedThinking) ==
    IF OwnExtendedThinking(participant) = <<TRUE>> THEN <<TRUE>> ELSE extendedThinking

useThinking(participant, extendedThinking) ==
    Coalesce(OwnExtendedThinking(participant), extendedThinking)

\* mutant: the request-level budget is used as it is
thinkBudget_Unbounded(participant, budgetTokens) ==
    Coalesce(OwnBudgetTokens(participant), <<OrNumber(budgetTokens, FallbackBudget)>>)[1]

thinkBudget(participant, budgetTokens) ==
    Coalesce(OwnBudgetTokens(participant),
             <<MathMin(OrNumber(budgetTokens, FallbackBudget),
                       OrNumber(participant.maxTokens, FallbackCeiling) - Reserve)>>)[1]

\* anthropicReq, its thinking field set when useThinking is truthy
anthropicReq(participant, extendedThinking, budgetTokens) ==
    [max_tokens |-> OrNumber(participant.maxTokens, FallbackMaxTokens),
     thinking |-> IF useThinking(participant, extendedThinking) = <<TRUE>>
                  THEN <<[type |-> "enabled",
                          budget_tokens |-> thinkBudget(participant, budgetTokens)]>>
                  ELSE << >>]

InitThinking ==
    /\ NoCall
    /\ sessions = << >>
    /\ hook = NoHook
    /\ \E participant \in ThinkingParticipants, e \in OptionalBooleans, b \in RequestBudgets :
          probe = [fn |-> "anthropicReq", participant |-> participant,
                   extendedThinking |-> e, budgetTokens |-> b, request |-> << >>]

\* handleAnthropicParticipant, from the options to the request
BuildAnthropicRequest ==
    /\ probe.fn = "anthropicReq"
    /\ probe.request = << >>
    /\ probe' = [probe EXCEPT !.request =
                    <<anthropicReq(probe.participant, probe.extendedThinking,
                                   probe.budgetTokens)>>]
    /\ UNCHANGED <<server, sessions, hook>>

NextThinking == BuildAnthropicRequest

SpecThinking == InitThinking /\ [][NextThinking]_vars

RequestBuilt == probe.fn = "anthropicReq" /\ probe.request # << >>
ThinkingEnabled == RequestBuilt /\ probe.request[1].thinking # << >>
BudgetSent == probe.request[1].thinking[1].budget_tokens
LesserOf(a, b) == IF a < b THEN a ELSE b

\* C23 as stated: the budget sent is the participant's own budgetTokens when
\* set, otherwise the lesser of (the request-level budgetTokens, or 2000 when
\* unset or zero) and (the participant's maxTokens, or 32000 when unset, minus
\* 100).
C23_BudgetAsStated ==
    ThinkingEnabled =>
        BudgetSent =
            IF OwnBudgetTokens(probe.participant) # << >>
            THEN OwnBudgetTokens(probe.participant)[1]
            ELSE LesserOf(
                   IF probe.budgetTokens = << >> \/ probe.budgetTokens = <<0>>
                   THEN FallbackBudget ELSE probe.budgetTokens[1],
                   (IF probe.participant.maxTokens = << >>
                    THEN FallbackCeiling ELSE probe.participant.maxTokens[1]) - Reserve)

\* C23 amended: as stated, with the participant's maxTokens replaced by 32000
\* when it is unset or zero.
C23_BudgetZeroIsUnset ==
    ThinkingEnabled =>
        BudgetSent =
            IF OwnBudgetTokens(probe.participant) # << >>
            THEN OwnBudgetTokens(probe.participant)[1]
            ELSE LesserOf(
                   IF probe.budgetTokens = << >> \/ probe.budgetTokens = <<0>>
                   THEN FallbackBudget ELSE probe.budgetTokens[1],
                   (IF probe.participant.maxTokens = << >> \/ probe.participant.maxTokens = <<0>>
                    THEN FallbackCeiling ELSE probe.participant.maxTokens[1]) - Reserve)

C23_Witness ==
    /\ ThinkingEnabled
    /\ OwnBudgetTokens(probe.participant) = << >>
    /\ probe.participant.maxTokens = <<0>>
    /\ probe.budgetTokens = <<50000>>
    /\ BudgetSent = FallbackCeiling - Reserve

\* C24: thinking is enabled in the request exactly when the participant's own
\* extendedThinking is true, or is undefined while the request-level
\* extendedThinking is true; a participant-level false disables it.
C24_ThinkingLayered ==
    RequestBuilt =>
        /\ ThinkingEnabled <=>
              \/ OwnExtendedThinking(probe.participant) = <<TRUE>>
              \/ /\ OwnExtendedThinking(probe.participant) = << >>
                 /\ probe.extendedThinking = <<TRUE>>
        /\ OwnExtendedThinking(probe.participant) = <<FALSE>> => ~ThinkingEnabled

C24_Witness ==
    /\ RequestBuilt
    /\ OwnExtendedThinking(probe.participant) = <<FALSE>>
    /\ probe.extendedThinking = <<TRUE>>
    /\ ~ThinkingEnabled

\* C25: whenever thinking is enabled, the budget_tokens sent is positive and
\* strictly less than the max_tokens of the same request.
C25_BudgetBelowMaxTokens ==
    ThinkingEnabled =>
        /\ BudgetSent > 0
        /\ BudgetSent < probe.request[1].max_tokens

(***************************************************************************)
(* The outcome of each participant.                                        *)
(***************************************************************************)
\* the turns the run appended to the history under a name
AppendedBy(name) ==
    {n \in (Len(InitialHistory) + 1)..Len(conversationHistory) :
        conversationHistory[n].attribution = name}

PositionsNamed(name) == {k \in Positions : participants[k].name = name}

\* C26: when the run has completed, every participant has either had its turn
\* appended or been named by an error event: per name, the appended turns and
\* the error events together are as many as the participants of that name,
\* whatever the provider value of a participant is.
C26_OneOutcomeEach ==
    pc = "done" =>
        /\ \A k \in Positions : outcome[k] \in {"done", "raised"}
        /\ \A name \in Names :
              Cardinality(AppendedBy(name)) + Cardinality(ErrorsNaming(name)) =
                  Cardinality(PositionsNamed(name))

(***************************************************************************)
(* The initial history of a request (SpecMessages): POST up to the         *)
(* creation of the stream, for every list of inbound messages of up to     *)
(* MaxMessages entries sent with one participant and its key.  Attached    *)
(* files are left out.                                                     *)
(***************************************************************************)
MaxMessages == 3

InboundMessages ==
    [type : {"user"}, content : {<<"hi">>, <<"ho">>}, participant_name : {""}, model : {""}]
    \cup [type : {"assistant"}, content : {<<"yo">>}, participant_name : {"", "B"},
          model : {"", "m1"}]
    \cup [type : {"system", "tool"}, content : {<<"sys">>}, participant_name : {""},
          model : {""}]

InboundLists == UNION {[1..n -> InboundMessages] : n \in 0..MaxMessages}

InitMessages ==
    /\ bodyParses = TRUE
    /\ hasParticipants = TRUE
    /\ hasMessages = TRUE
    /\ participants = <<[name |-> "A", provider |-> "openai"]>>
    /\ prefillContent = << >>
    /\ openaiKey = TRUE
    /\ anthropicKey = FALSE
    /\ messages \in InboundLists
    /\ Fresh
    /\ sessions = << >>
    /\ hook = NoHook
    /\ probe = NoProbe

NextMessages == Accept

SpecMessages == InitMessages /\ [][NextMessages]_vars

\* the inbound messages of type user or assistant, in their order
KeptMessages == SelectSeq(messages, LAMBDA m : m.type \in {"user", "assistant"})

\* C27: the history built from the request has one turn per inbound message of
\* type user or assistant, in the inbound order, with that message's role and
\* content; every assistant turn has a non-empty attribution, which is its
\* participant_name if present, else its model, else "Assistant".
C27_InitialHistory ==
    pc = "loop" =>
        /\ Len(conversationHistory) = Len(KeptMessages)
        /\ \A n \in 1..Len(KeptMessages) :
              LET m == KeptMessages[n]
                  turn == conversationHistory[n]
              IN /\ turn.role = m.type
                 /\ turn.content = m.content
                 /\ m.type = "assistant" =>
                       /\ turn.attribution # ""
                       /\ turn.attribution =
                             IF m.participant_name # "" THEN m.participant_name
                             ELSE IF m.model # "" THEN m.model
                             ELSE "Assistant"

C27_Witness ==
    /\ pc = "loop"
    /\ Len(messages) = 3
    /\ messages[1].type = "assistant"
    /\ messages[1].participant_name = "" /\ messages[1].model = "m1"
    /\ messages[2].type = "tool"
    /\ messages[3] = [type |-> "user", content |-> <<"ho">>, participant_name |-> "",
                      model |-> ""]
    /\ Len(conversationHistory) = 2
    /\ conversationHistory[1].attribution = "m1"

(***************************************************************************)
(* The client hook useSynergy (SpecHook): one call of sendMessage, the     *)
(* request it sends to POST, and the reading of the response stream.  The  *)
(* participants of the call use the OpenAI provider, whose events other    *)
(* than text deltas are left out.  An event is serialised as               *)
(* `data: <json>\n\n`: a head (the prefix and the start of the json), a    *)
(* tail (the rest of the json) and two newlines; the transport cuts the    *)
(* byte stream into reads at any of these places.  The server is followed  *)
(* while the call is pending; what it does after the client has left is    *)
(* SpecAbort's.                                                            *)
(***************************************************************************)
HookParticipants == [name : Names, provider : {"openai"}]
\* the lists of the call; the hook treats every name alike, so the first is "A"
HookLists ==
    {list \in UNION {[1..n -> HookParticipants] : n \in 0..MaxParticipants} :
        list # << >> => list[1].name = "A"}

NewLine == [part |-> "nl"]

\* encoder.encode(`data: ${JSON.stringify(obj)}\n\n`)
Encode(obj) ==
    <<[part |-> "head", ev |-> obj], [part |-> "tail", ev |-> obj], NewLine, NewLine>>

\* the bytes enqueued so far
RECURSIVE Wire(_)
Wire(evs) == IF evs = << >> THEN << >> ELSE Encode(Head(evs)) \o Wire(Tail(evs))

\* chunk.split("\n")
RECURSIVE SplitFrom(_, _)
SplitFrom(chunk, line) ==
    IF chunk = << >> THEN <<line>>
    ELSE IF Head(chunk).part = "nl" THEN <<line>> \o SplitFrom(Tail(chunk), << >>)
    ELSE SplitFrom(Tail(chunk), Append(line, Head(chunk)))

Split(chunk) == SplitFrom(chunk, << >>)

\* line.startsWith("data: ")
StartsWithData(line) == line # << >> /\ line[1].part = "head"

\* JSON.parse(line.slice(6)) returns: the json of one event is whole
Parses(line) ==
    /\ Len(line) = 2
    /\ line[1].part = "head"
    /\ line[2].part = "tail"
    /\ line[1].ev = line[2].ev

\* participants.findIndex((p) => p.name === data.participant), 0 when none
FindIndex(name) ==
    IF \E k \in DOMAIN participants : participants[k].name = name
    THEN CHOOSE k \in DOMAIN participants :
            /\ participants[k].name = name
            /\ \A j \in 1..(k - 1) : participants[j].name # name
    ELSE 0

\* the handling of one parsed event
HandleEvent(h, data) ==
    LET seen == [h EXCEPT !.processed = Append(@, data)]
    IN IF data.type = "chunk"
       THEN LET updatedResponse == h.responses[data.participant] \o data.content
                participantIndex == FindIndex(data.participant)
            IN [seen EXCEPT
                  !.responses = [@ EXCEPT ![data.participant] = updatedResponse],
                  !.bubbles = IF participantIndex \in DOMAIN h.bubbles
                              THEN [@ EXCEPT ![participantIndex] =
                                       [@ EXCEPT !.content = updatedResponse]]
                              ELSE @]
       ELSE IF data.type = "error"
       THEN LET participantIndex == FindIndex(data.participant)
            IN [seen EXCEPT
                  !.bubbles = IF participantIndex \in DOMAIN h.bubbles
                              THEN [@ EXCEPT ![participantIndex] =
                                       [content |-> data.message, isError |-> TRUE]]
                              ELSE @]
       ELSE [seen EXCEPT !.completed = TRUE]

\* the body of the loop over the lines of one read
HandleLine(h, line) ==
    IF StartsWithData(line) /\ Parses(line) THEN HandleEvent(h, line[1].ev) ELSE h

\* for (const line of lines), left at the complete event
RECURSIVE HandleLines(_, _)
HandleLines(h, lines) ==
    IF lines = << >> \/ h.completed THEN h
    ELSE HandleLines(HandleLine(h, Head(lines)), Tail(lines))

\* the hook before sendMessage is called
IdleHook ==
    [pc |-> "idle", isLoading |-> FALSE, controller |-> FALSE, bubbles |-> << >>,
     responses |-> [name \in Names |-> << >>], errorMessages |-> 0,
     processed |-> << >>, completed |-> FALSE, consumed |-> 0, ending |-> "none"]

InitHook ==
    /\ bodyParses = TRUE
    /\ hasParticipants = TRUE
    /\ hasMessages = TRUE
    /\ participants \in HookLists
    /\ prefillContent = << >>
    /\ openaiKey \in BOOLEAN
    /\ anthropicKey = FALSE
    /\ messages = <<UserMsg>>
    /\ pc = "unsent"
    /\ status = 0
    /\ i = 0
    /\ conversationHistory = << >>
    /\ events = << >>
    /\ closed = FALSE
    /\ fullResponse = << >>
    /\ request = NoRequest
    /\ openStreams = {}
    /\ delivered = 0
    /\ outcome = [k \in DOMAIN participants |-> "pending"]
    /\ received = [k \in DOMAIN participants |-> << >>]
    /\ streamed = [k \in DOMAIN participants |-> << >>]
    /\ abort = NoAbort
    /\ sessions = << >>
    /\ probe = NoProbe
    /\ hook = IdleHook

\* what the steps of the hook leave alone in the server
handling == <<inputs, status, i, conversationHistory, events, closed, fullResponse,
              request, openStreams, delivered, outcome, received, streamed>>

\* sendMessage throws before anything is set: a key is missing
HookRefuse ==
    /\ hook.pc = "idle"
    /\ KeyMissing
    /\ hook' = [hook EXCEPT !.pc = "refused"]
    /\ UNCHANGED <<handling, pc, abort, sessions, probe>>

\* sendMessage up to the await of fetch
HookSend ==
    /\ hook.pc = "idle"
    /\ ~KeyMissing
    /\ hook' = [hook EXCEPT
                  !.pc = "fetching",
                  !.isLoading = TRUE,
                  !.controller = TRUE,
                  !.bubbles = [k \in DOMAIN participants |->
                                  [content |-> << >>, isError |-> FALSE]]]
    /\ pc' = "start"
    /\ UNCHANGED <<handling, abort, sessions, probe>>

\* fetch resolves: the reader is taken, or !response.ok throws into the catch
HookResponse ==
    /\ hook.pc = "fetching"
    /\ status # 0
    /\ hook' = IF status = 200
               THEN [hook EXCEPT !.pc = "reading"]
               ELSE [hook EXCEPT !.pc = "settled", !.ending = "http",
                                 !.errorMessages = @ + 1,
                                 !.isLoading = FALSE, !.controller = FALSE]
    /\ UNCHANGED <<handling, pc, abort, sessions, probe>>

\* fetch or reader.read() rejects with an error that is no AbortError
HookNetworkError ==
    /\ hook.pc \in {"fetching", "reading"}
    /\ hook' = [hook EXCEPT !.pc = "settled", !.ending = "network",
                            !.errorMessages = @ + 1,
                            !.isLoading = FALSE, !.controller = FALSE]
    /\ UNCHANGED <<handling, pc, abort, sessions, probe>>

\* one read of the stream and the loop over its lines
HookRead ==
    /\ hook.pc = "reading"
    /\ \E m \in (hook.consumed + 1)..Len(Wire(events)) :
          LET chunk == SubSeq(Wire(events), hook.consumed + 1, m)
              h == HandleLines(hook, Split(chunk))
          IN hook' = IF h.completed
                     THEN [h EXCEPT !.consumed = m, !.pc = "settled",
                                    !.ending = "complete",
                                    !.isLoading = FALSE, !.controller = FALSE]
                     ELSE [h EXCEPT !.consumed = m]
    /\ UNCHANGED <<handling, pc, abort, sessions, probe>>

\* mutant: the end of the stream leaves the loading flag as it is
HookDone_NoFinally ==
    /\ hook.pc = "reading"
    /\ closed
    /\ hook.consumed = Len(Wire(events))
    /\ hook' = [hook EXCEPT !.pc = "settled", !.ending = "eof", !.controller = FALSE]
    /\ UNCHANGED <<handling, pc, abort, sessions, probe>>

\* reader.read() reports done: the chain resolves and finally runs
HookDone ==
    /\ hook.pc = "reading"
    /\ closed
    /\ hook.consumed = Len(Wire(events))
    /\ hook' = [hook EXCEPT !.pc = "settled", !.ending = "eof",
                            !.isLoading = FALSE, !.controller = FALSE]
    /\ UNCHANGED <<handling, pc, abort, sessions, probe>>

\* abort(): the controller aborts the request, the response stream is cancelled
HookAbort ==
    /\ hook.pc \in {"fetching", "reading"}
    /\ hook.controller
    /\ hook' = [hook EXCEPT !.pc = "aborted", !.controller = FALSE, !.isLoading = FALSE]
    /\ abort' = [cancelled |-> TRUE, position |-> i, emitted |-> Len(events)]
    /\ UNCHANGED <<handling, pc, sessions, probe>>

\* the pending await rejects with an AbortError: the catch logs, finally runs
HookAbortSettles ==
    /\ hook.pc = "aborted"
    /\ hook' = [hook EXCEPT !.pc = "settled", !.ending = "abort",
                            !.isLoading = FALSE, !.controller = FALSE]
    /\ UNCHANGED <<handling, pc, abort, sessions, probe>>

\* the call of sendMessage awaits the response or reads it: the server is
\* followed for as long as the call is pending
CallPending == hook.pc \in {"fetching", "reading"}

NextHook ==
    \/ HookRefuse
    \/ HookSend
    \/ HookResponse
    \/ HookNetworkError
    \/ HookRead
    \/ HookDone
    \/ HookAbort
    \/ HookAbortSettles
    \/ CallPending /\ Reject
    \/ CallPending /\ Accept
    \/ CallPending /\ OpenAICall
    \/ CallPending /\ OpenAIOpened
    \/ CallPending /\ OpenAITextDelta
    \/ CallPending /\ OpenAIStreamEnd
    \/ CallPending /\ ParticipantCatch
    \/ CallPending /\ Complete

SpecHook == InitHook /\ [][NextHook]_vars

HookSettled == hook.pc = "settled"

\* the hook has read the stream to its end: the complete event or done
StreamConsumed == HookSettled /\ hook.ending \in {"complete", "eof"}

\* C28: once the call of sendMessage that started a request has settled,
\* isLoading is false, however it ended; the loading flag is set only while the
\* call is pending; an abort adds no error message to the list.
C28_LoadingCleared ==
    /\ HookSettled => ~hook.isLoading
    /\ HookSettled => hook.ending \in {"complete", "eof", "http", "network", "abort"}
    /\ hook.isLoading => hook.pc \in {"fetching", "reading"}
    /\ (hook.pc = "aborted" \/ hook.ending = "abort") => hook.errorMessages = 0

C28_Witness ==
    /\ HookSettled
    /\ hook.ending = "abort"
    /\ Len(hook.bubbles) = 2
    /\ hook.bubbles[1].content # << >>
    /\ ~hook.isLoading
    /\ hook.errorMessages = 0

\* C29: when the stream has been consumed with every event handled and no
\* participant raised, the bubble at each position holds the text that the
\* server emitted as chunks for the participant at that position.
C29_BubblePerPosition ==
    (StreamConsumed /\ hook.processed = events /\ EventsOfType("error") = {}) =>
        /\ Len(hook.bubbles) = Len(participants)
        /\ \A k \in Positions : hook.bubbles[k].content = streamed[k]

\* C30: when the stream has been consumed, the events the hook handled are the
\* events the server emitted, each once and in emission order, however the
\* stream was cut into reads.
C30_EveryEventOnce ==
    StreamConsumed => hook.processed = events

(***************************************************************************)
(* validateParticipant of src/utils/index.ts (SpecValidate).  A string is  *)
(* "" when empty or missing; a model name is the sequence of its parts, so *)
(* that startsWith looks at the first; a temperature is optional and       *)
(* counted in tenths.                                                      *)
(***************************************************************************)
ModelNames ==
    {<< >>, <<"gpt-5">>, <<"gpt-5", "-mini">>, <<"o1">>, <<"o3", "-mini">>, <<"gpt-4.1">>}

ValidatedParticipants ==
    [id : {"", "p1"}, name : {"", "A"}, provider : {"", "openai", "anthropic"},
     model : ModelNames, temperature : {<< >>, <<0>>, <<7>>, <<10>>}]

\* model.startsWith(prefix)
StartsWith(model, prefix) == model # << >> /\ Head(model) = prefix

requiresFixedTemperature(model) ==
    StartsWith(model, "gpt-5") \/ StartsWith(model, "o1") \/ StartsWith(model, "o3")

\* participant.temperature && participant.temperature !== 1.0: 0 is falsy
TemperatureRejected(temperature) ==
    /\ temperature # << >> /\ temperature[1] # 0
    /\ temperature[1] # 10

validateParticipant(participant) ==
    LET errors ==
            (IF participant.id = "" THEN <<"Participant ID is required">> ELSE << >>)
            \o (IF participant.name = "" THEN <<"Participant name is required">> ELSE << >>)
            \o (IF participant.provider = "" THEN <<"Provider is required">> ELSE << >>)
            \o (IF participant.model = << >> THEN <<"Model is required">> ELSE << >>)
            \o (IF /\ participant.provider = "openai"
                   /\ requiresFixedTemperature(participant.model)
                   /\ TemperatureRejected(participant.temperature)
                THEN <<"requires temperature = 1.0">> ELSE << >>)
    IN [valid |-> Len(errors) = 0, errors |-> errors]

InitValidate ==
    /\ NoCall
    /\ sessions = << >>
    /\ hook = NoHook
    /\ \E participant \in ValidatedParticipants :
          probe = [fn |-> "validateParticipant", participant |-> participant,
                   result |-> << >>]

Validate ==
    /\ probe.fn = "validateParticipant"
    /\ probe.result = << >>
    /\ probe' = [probe EXCEPT !.result = <<validateParticipant(probe.participant)>>]
    /\ UNCHANGED <<server, sessions, hook>>

NextValidate == Validate

SpecValidate == InitValidate /\ [][NextValidate]_vars

Validated == probe.fn = "validateParticipant" /\ probe.result # << >>

\* an OpenAI participant of a fixed-temperature model (gpt-5, o1 or o3 family)
\* whose temperature is given and is not 1.0
WrongFixedTemperature(participant) ==
    /\ participant.provider = "openai"
    /\ participant.model # << >>
    /\ participant.model[1] \in {"gpt-5", "o1", "o3"}
    /\ participant.temperature \in {<<0>>, <<7>>}

\* C31: the result is valid exactly when its errors list is empty, and the
\* list holds the temperature error for every OpenAI participant of a
\* fixed-temperature model whose temperature is given with a value other than
\* 1.0, the value 0 included.
C31_TemperatureReported ==
    Validated =>
        LET result == probe.result[1]
        IN /\ result.valid <=> result.errors = << >>
           /\ WrongFixedTemperature(probe.participant) =>
                 \E n \in DOMAIN result.errors :
                     result.errors[n] = "requires temperature = 1.0"

====
